---- MODULE Spec2Model ----
(***************************************************************************)
(* Contact scoring (challenge.py): three table lookups score the role, the *)
(* company size and the country of each contact, a weighted sum gives the  *)
(* final score, and process_contacts reads data.csv, fills the missing     *)
(* cells, scores, sorts by final score descending, drops the score columns *)
(* and writes contact_plan.csv.                                            *)
(*                                                                         *)
(* Text is a tuple of one-character strings, so that str.lower() is a      *)
(* computation on characters.  A missing cell (pandas NaN) is NaN.         *)
(* Scores are integers; final scores are kept in tenths (5*r + 3*s + 2*c): *)
(* every table score is a multiple of 10 and, for every combination of     *)
(* table values, the binary64 result of r*0.5 + s*0.3 + c*0.2 is the exact *)
(* decimal value, so comparing tenths is comparing the floats.             *)
(***************************************************************************)
EXTENDS Integers, Sequences, FiniteSets, TLC

VARIABLES
    pc,          \* position of process_contacts
    file,        \* data.csv: [exists, cols, rows]
    df,          \* the DataFrame: [cols, index, data]
    outFile,     \* contact_plan.csv: [written, cols, rows]
    tieOrder,    \* the order the build's quicksort leaves equal keys in
    run,         \* number of the current execution of the script
    prev,        \* what the previous execution left: [out, first]
    firstScored, \* label of the first row scored in this execution
    arg,         \* value a scorer is applied to (Series.apply)
    ret          \* scores returned for arg: [role, size, country]

vars == <<pc, file, df, outFile, tieOrder, run, prev, firstScored, arg, ret>>

pipeVars == <<pc, file, df, outFile, tieOrder, run, prev, firstScored>>
applyVars == <<arg, ret>>

----------------------------------------------------------------------------
(* Bounds *)

MaxRows == 2        \* rows of data.csv in Spec
MaxParRows == 2     \* rows of data.csv in SpecPar
MaxRuns == 2        \* executions of the script in SpecPar

----------------------------------------------------------------------------
(* Text *)

NaN == <<"NaN">>

IsText(v) == v # NaN

LowerOf ==
    ("A" :> "a") @@ ("B" :> "b") @@ ("C" :> "c") @@ ("D" :> "d") @@ ("E" :> "e")
 @@ ("F" :> "f") @@ ("G" :> "g") @@ ("H" :> "h") @@ ("I" :> "i") @@ ("J" :> "j")
 @@ ("K" :> "k") @@ ("L" :> "l") @@ ("M" :> "m") @@ ("N" :> "n") @@ ("O" :> "o")
 @@ ("P" :> "p") @@ ("Q" :> "q") @@ ("R" :> "r") @@ ("S" :> "s") @@ ("T" :> "t")
 @@ ("U" :> "u") @@ ("V" :> "v") @@ ("W" :> "w") @@ ("X" :> "x") @@ ("Y" :> "y")
 @@ ("Z" :> "z")

UpperOf ==
    ("a" :> "A") @@ ("b" :> "B") @@ ("c" :> "C") @@ ("d" :> "D") @@ ("e" :> "E")
 @@ ("f" :> "F") @@ ("g" :> "G") @@ ("h" :> "H") @@ ("i" :> "I") @@ ("j" :> "J")
 @@ ("k" :> "K") @@ ("l" :> "L") @@ ("m" :> "M") @@ ("n" :> "N") @@ ("o" :> "O")
 @@ ("p" :> "P") @@ ("q" :> "Q") @@ ("r" :> "R") @@ ("s" :> "S") @@ ("t" :> "T")
 @@ ("u" :> "U") @@ ("v" :> "V") @@ ("w" :> "W") @@ ("x" :> "X") @@ ("y" :> "Y")
 @@ ("z" :> "Z")

\* str.lower(): every upper-case letter becomes its lower-case letter
lower(s) ==
    [i \in 1..Len(s) |-> IF s[i] \in DOMAIN LowerOf THEN LowerOf[s[i]] ELSE s[i]]

\* the character c in the other case (c itself when it has no case)
swapcase(c) ==
    IF c \in DOMAIN LowerOf THEN LowerOf[c]
    ELSE IF c \in DOMAIN UpperOf THEN UpperOf[c]
    ELSE c

\* s with the case of its i-th character changed
SwapAt(s, i) == [s EXCEPT ![i] = swapcase(s[i])]

----------------------------------------------------------------------------
(* Score tables *)

ROLE_SCORES ==
       (<<"c", "e", "o">> :> 100)
    @@ (<<"c", "f", "o">> :> 90)
    @@ (<<"c", "t", "o">> :> 90)
    @@ (<<"m", "a", "n", "a", "g", "e", "r">> :> 80)
    @@ (<<"c", "o", "n", "s", "u", "l", "t", "a", "n", "t">> :> 70)
    @@ (<<"e", "n", "g", "i", "n", "e", "e", "r">> :> 60)
    @@ (<<"d", "e", "v", "e", "l", "o", "p", "e", "r">> :> 50)
    @@ (<<"a", "n", "a", "l", "y", "s", "t">> :> 40)
    @@ (<<"d", "e", "s", "i", "g", "n", "e", "r">> :> 30)
    @@ (<<"i", "n", "t", "e", "r", "n">> :> 10)

COMPANY_SIZE_SCORES ==
       (<<"1", "0", "0", "0", "0", "+">> :> 100)
    @@ (<<"5", "0", "0", "1", "-", "1", "0", "0", "0", "0">> :> 90)
    @@ (<<"1", "0", "0", "1", "-", "5", "0", "0", "0">> :> 80)
    @@ (<<"5", "0", "1", "-", "1", "0", "0", "0">> :> 70)
    @@ (<<"2", "0", "1", "-", "5", "0", "0">> :> 60)
    @@ (<<"5", "1", "-", "2", "0", "0">> :> 50)
    @@ (<<"1", "1", "-", "5", "0">> :> 30)
    @@ (<<"1", "-", "1", "0">> :> 20)

COUNTRY_TIERS ==
    [tier_1 |-> {<<"u", "s", "a">>, <<"u", "k">>,
                 <<"g", "e", "r", "m", "a", "n", "y">>,
                 <<"f", "r", "a", "n", "c", "e">>,
                 <<"c", "a", "n", "a", "d", "a">>,
                 <<"a", "u", "s", "t", "r", "a", "l", "i", "a">>},
     tier_2 |-> {<<"s", "p", "a", "i", "n">>, <<"i", "t", "a", "l", "y">>,
                 <<"b", "r", "a", "z", "i", "l">>, <<"i", "n", "d", "i", "a">>}]

COUNTRY_SCORES == [tier_1 |-> 100, tier_2 |-> 80, other |-> 60]

\* the weights with the country weight 0.3
WEIGHTS_sum_above_one == [role |-> 5, company_size |-> 3, country |-> 3]

\* tenths of the weights 0.5, 0.3, 0.2
WEIGHTS == [role |-> 5, company_size |-> 3, country |-> 2]

----------------------------------------------------------------------------
(* Scorers.  Error is the exception a scorer raises: role.lower() and      *)
(* country.lower() raise AttributeError on a NaN, which is a float, while  *)
(* dict.get(NaN, 20) finds no key and returns the default.                 *)

Error == -1
NotCalled == -2

\* ROLE_SCORES[role.lower()]: a KeyError on a role the table does not have
assign_role_score_nodefault(role) ==
    IF ~IsText(role) THEN Error
    ELSE IF lower(role) \in DOMAIN ROLE_SCORES THEN ROLE_SCORES[lower(role)]
    ELSE Error

\* ROLE_SCORES.get(role, 20): the lookup without role.lower()
assign_role_score_nolower(role) ==
    IF ~IsText(role) THEN Error
    ELSE IF role \in DOMAIN ROLE_SCORES THEN ROLE_SCORES[role]
    ELSE 20

assign_role_score(role) ==
    IF ~IsText(role) THEN Error
    ELSE IF lower(role) \in DOMAIN ROLE_SCORES THEN ROLE_SCORES[lower(role)]
    ELSE 20

assign_company_size_score(size) ==
    IF size \in DOMAIN COMPANY_SIZE_SCORES THEN COMPANY_SIZE_SCORES[size]
    ELSE 20

assign_country_score(country) ==
    IF ~IsText(country) THEN Error
    ELSE IF lower(country) \in COUNTRY_TIERS.tier_1 THEN COUNTRY_SCORES.tier_1
    ELSE IF lower(country) \in COUNTRY_TIERS.tier_2 THEN COUNTRY_SCORES.tier_2
    ELSE COUNTRY_SCORES.other

----------------------------------------------------------------------------
(* Sample text values *)

T_unknown == <<"u", "n", "k", "n", "o", "w", "n">>
T_1_10 == <<"1", "-", "1", "0">>
T_empty == <<>>
T_wizard == <<"w", "i", "z", "a", "r", "d">>
T_mongolia == <<"m", "o", "n", "g", "o", "l", "i", "a">>
T_not_a_bucket == <<"n", "o", "t", "-", "a", "-", "b", "u", "c", "k", "e", "t">>
T_1_10_space == <<"1", "-", "1", "0", " ">>

Countries == COUNTRY_TIERS.tier_1 \cup COUNTRY_TIERS.tier_2

\* the values Series.apply draws; ChangeCase reaches every case variant
Texts ==
    DOMAIN ROLE_SCORES \cup DOMAIN COMPANY_SIZE_SCORES \cup Countries
    \cup {T_unknown, T_empty, T_wizard, T_mongolia, T_not_a_bucket, T_1_10_space}

----------------------------------------------------------------------------
(* State of a process that has not run process_contacts *)

NoFile == [exists |-> FALSE, cols |-> {}, rows |-> <<>>]
NoFrame == [cols |-> {}, index |-> <<>>, data |-> <<>>]
NoOutput == [written |-> FALSE, cols |-> {}, rows |-> <<>>]
NoRow == 0
NoPrev == [out |-> NoOutput, first |-> NoRow]
NoRet == [role |-> NotCalled, size |-> NotCalled, country |-> NotCalled]

PipeIdle ==
    /\ pc = "idle"
    /\ file = NoFile
    /\ df = NoFrame
    /\ outFile = NoOutput
    /\ tieOrder = <<>>
    /\ run = 0
    /\ prev = NoPrev
    /\ firstScored = NoRow

ApplyIdle ==
    /\ arg = T_empty
    /\ ret = NoRet

----------------------------------------------------------------------------
(* Series.apply(f): f is called on one value after the other, and an       *)
(* exception raised by f ends the apply.                                   *)

Raised == \E k \in DOMAIN ret : ret[k] = Error

CallRole ==
    /\ pc = "idle"
    /\ ~Raised
    /\ ret.role = NotCalled
    /\ ret' = [ret EXCEPT !.role = assign_role_score(arg)]
    /\ UNCHANGED <<arg, pipeVars>>

CallSize ==
    /\ pc = "idle"
    /\ ~Raised
    /\ ret.size = NotCalled
    /\ ret' = [ret EXCEPT !.size = assign_company_size_score(arg)]
    /\ UNCHANGED <<arg, pipeVars>>

CallCountry ==
    /\ pc = "idle"
    /\ ~Raised
    /\ ret.country = NotCalled
    /\ ret' = [ret EXCEPT !.country = assign_country_score(arg)]
    /\ UNCHANGED <<arg, pipeVars>>

\* the scorers already called on arg are called on arg with one letter's
\* case changed
ChangeCase(i) ==
    /\ pc = "idle"
    /\ ~Raised
    /\ swapcase(arg[i]) # arg[i]
    /\ arg' = SwapAt(arg, i)
    /\ ret' = [role |-> IF ret.role = NotCalled THEN NotCalled
                         ELSE assign_role_score(arg'),
               size |-> IF ret.size = NotCalled THEN NotCalled
                         ELSE assign_company_size_score(arg'),
               country |-> IF ret.country = NotCalled THEN NotCalled
                            ELSE assign_country_score(arg')]
    /\ UNCHANGED pipeVars

\* the next value of the column
NextValue(v) ==
    /\ pc = "idle"
    /\ ~Raised
    /\ ret # NoRet
    /\ arg' = v
    /\ ret' = NoRet
    /\ UNCHANGED pipeVars

InitScore ==
    /\ PipeIdle
    /\ arg \in Texts
    /\ ret = NoRet

NextScore ==
    \/ CallRole
    \/ CallSize
    \/ CallCountry
    \/ \E i \in 1..Len(arg) : ChangeCase(i)
    \/ \E v \in Texts : NextValue(v)

SpecScore == InitScore /\ [][NextScore]_vars

----------------------------------------------------------------------------
(* Properties of the scorers (SpecScore) *)

\* a and b are the same text up to the case of their letters
EqualsIgnoreCase(a, b) ==
    /\ Len(a) = Len(b)
    /\ \A i \in 1..Len(a) : a[i] = b[i] \/ swapcase(a[i]) = b[i]

RefRoleScore(v) ==
    IF \E k \in DOMAIN ROLE_SCORES : EqualsIgnoreCase(v, k)
    THEN ROLE_SCORES[CHOOSE k \in DOMAIN ROLE_SCORES : EqualsIgnoreCase(v, k)]
    ELSE 20

RefSizeScore(v) ==
    IF \E k \in DOMAIN COMPANY_SIZE_SCORES : k = v
    THEN COMPANY_SIZE_SCORES[CHOOSE k \in DOMAIN COMPANY_SIZE_SCORES : k = v]
    ELSE 20

RefCountryScore(v) ==
    IF \E k \in COUNTRY_TIERS.tier_1 : EqualsIgnoreCase(v, k) THEN 100
    ELSE IF \E k \in COUNTRY_TIERS.tier_2 : EqualsIgnoreCase(v, k) THEN 80
    ELSE 60

\* C5: for every text value (empty, unrecognized, mixed case, known) each
\* scorer returns a score in [0,100] and raises nothing, so the apply goes
\* on to the next value of the column.
C5_ScoresInRange ==
    pc = "idle" =>
        /\ \A k \in DOMAIN ret : ret[k] = NotCalled \/ ret[k] \in 0..100
        /\ ret # NoRet => ENABLED (\E v \in Texts : NextValue(v))

C5_Witness ==
    /\ arg \in {T_wizard, T_empty, <<"W", "i", "Z", "a", "r", "d">>}
    /\ ret = [role |-> 20, size |-> 20, country |-> 60]

RefAgrees ==
    /\ ret.role # NotCalled => ret.role = RefRoleScore(arg)
    /\ ret.size # NotCalled => ret.size = RefSizeScore(arg)
    /\ ret.country # NotCalled => ret.country = RefCountryScore(arg)

CaseChanged ==
    /\ arg' # arg
    /\ EqualsIgnoreCase(arg, arg')
    /\ ret.role # NotCalled /\ ret'.role # NotCalled
    /\ ret.country # NotCalled /\ ret'.country # NotCalled

\* C6: every scorer returns what its reference lookup returns (role and
\* country matched ignoring case, company size matched exactly, defaults 20,
\* 20 and 60), and changing the case of the value changes neither the role
\* score nor the country score.
C6_ScorersAreLookups ==
    [][/\ RefAgrees'
       /\ CaseChanged => (ret'.role = ret.role /\ ret'.country = ret.country)]_vars

C6_Witness ==
    /\ arg = <<"S", "p", "A", "i", "n">>
    /\ ret = [role |-> 20, size |-> 20, country |-> 80]

----------------------------------------------------------------------------
(* data.csv *)

Required == {"Role", "Company Size", "Country"}
score_columns == {"role_score", "company_size_score", "country_score", "final_score"}

\* the header rows data.csv may have: the three required columns and a
\* passthrough column Name; one more passthrough column which happens to be
\* called final_score; or one required column absent
Schemas ==
    {Required \cup {"Name"}, Required \cup {"Name", "final_score"}}
    \cup {(Required \ {c}) \cup {"Name"} : c \in Required}

RowNames == <<<<"a">>, <<"b">>, <<"c">>, <<"d">>, <<"e">>, <<"f">>>>
LegacyScore == 7

\* row i of a file with header sch whose Role, Company Size, Country cells
\* are t[1], t[2], t[3]
MkRow(sch, t, i) ==
    [c \in sch |->
        IF c = "Role" THEN t[1]
        ELSE IF c = "Company Size" THEN t[2]
        ELSE IF c = "Country" THEN t[3]
        ELSE IF c = "Name" THEN RowNames[i]
        ELSE LegacyScore]

\* the files of at most maxN rows with cells drawn from RC, SC, CC,
\* and the absent file
InputFiles(maxN, RC, SC, CC) ==
    {NoFile} \cup
    UNION {UNION {{[exists |-> TRUE, cols |-> sch,
                    rows |-> [i \in 1..n |-> MkRow(sch, f[i], i)]]
                      : f \in [1..n -> RC \X SC \X CC]}
                   : sch \in Schemas}
           : n \in 0..maxN}

T_Manager == <<"M", "a", "n", "a", "g", "e", "r">>
T_developer == <<"d", "e", "v", "e", "l", "o", "p", "e", "r">>
T_51_200 == <<"5", "1", "-", "2", "0", "0">>
T_10000 == <<"1", "0", "0", "0", "0", "+">>
T_USA == <<"U", "S", "A">>

\* cells of the files of Spec: 0.5*80 + 0.3*50 = 0.5*50 + 0.3*100, so rows
\* with different roles and sizes can have the same final score
RoleCells == {NaN, T_Manager, T_developer}
SizeCells == {NaN, T_51_200, T_10000}
CountryCells == {NaN, T_USA}

----------------------------------------------------------------------------
(* DataFrame operations *)

\* pd.read_csv: the rows are labelled 1..n in file order
read_csv(f) ==
    [cols |-> f.cols, index |-> [i \in 1..Len(f.rows) |-> i], data |-> f.rows]

\* df[col].fillna(value, inplace=True) that fills a copy of the column and
\* leaves the frame as it was
fillna_on_copy(d, col, value) == d

\* df[col].fillna(value, inplace=True): the missing cells of the column
\* get value in the frame itself (df[col] is the frame's column, as in the
\* pandas without copy-on-write that the script is written for)
fillna(d, col, value) ==
    [d EXCEPT !.data = [i \in DOMAIN @ |->
        [@[i] EXCEPT ![col] = IF @ = NaN THEN value ELSE @]]]

\* df[col] = vals
setcol(d, col, vals) ==
    [d EXCEPT !.cols = @ \cup {col},
              !.data = [i \in DOMAIN @ |-> (col :> vals[i]) @@ @[i]]]

\* final_score of a scored row, in tenths
final_score(r) ==
      r["role_score"] * WEIGHTS.role
    + r["company_size_score"] * WEIGHTS.company_size
    + r["country_score"] * WEIGHTS.country

\* position of label l in the order ties
TieRank(ties, l) == CHOOSE k \in DOMAIN ties : ties[k] = l

\* df.sort_values('final_score'): ascending=False forgotten
sort_values_ascending(d, ties) ==
    LET n == Len(d.index)
        key(l) == d.data[l]["final_score"]
        Before(a, b) ==
            \/ key(a) < key(b)
            \/ key(a) = key(b) /\ TieRank(ties, a) < TieRank(ties, b)
    IN [d EXCEPT !.index = CHOOSE p \in Permutations(1..n) :
            \A a, b \in 1..n : a < b => Before(p[a], p[b])]

\* df.sort_values('final_score', ascending=False) with the default
\* kind='quicksort', which is not stable: rows come out by final score
\* descending, and rows of equal final score in the order ties
sort_values(d, ties) ==
    LET n == Len(d.index)
        key(l) == d.data[l]["final_score"]
        Before(a, b) ==
            \/ key(a) > key(b)
            \/ key(a) = key(b) /\ TieRank(ties, a) < TieRank(ties, b)
    IN [d EXCEPT !.index = CHOOSE p \in Permutations(1..n) :
            \A a, b \in 1..n : a < b => Before(p[a], p[b])]

\* df.drop(columns=cs)
drop(d, cs) ==
    [d EXCEPT !.cols = @ \ cs,
              !.data = [i \in DOMAIN @ |-> [c \in (DOMAIN @[i]) \ cs |-> @[i][c]]]]

\* df.to_csv(output_file, index=False): the rows in index order
to_csv(d) ==
    [written |-> TRUE, cols |-> d.cols,
     rows |-> [k \in 1..Len(d.index) |-> d.data[d.index[k]]]]

----------------------------------------------------------------------------
(* process_contacts, statement by statement.  An exception (a scorer's, a  *)
(* KeyError of df[col], the FileNotFoundError of read_csv) ends the run.   *)

\* pd.read_csv that also creates the output file
ReadCsvOpensOutput ==
    /\ pc = "start"
    /\ IF file.exists
       THEN /\ df' = read_csv(file)
            /\ outFile' = [written |-> TRUE, cols |-> file.cols, rows |-> <<>>]
            /\ pc' = "fill_role"
       ELSE /\ pc' = "failed"
            /\ UNCHANGED <<df, outFile>>
    /\ UNCHANGED <<file, tieOrder, run, prev, firstScored, applyVars>>

ReadCsv ==
    /\ pc = "start"
    /\ IF file.exists
       THEN /\ df' = read_csv(file)
            /\ pc' = "fill_role"
       ELSE /\ pc' = "failed"
            /\ UNCHANGED df
    /\ UNCHANGED <<file, outFile, tieOrder, run, prev, firstScored, applyVars>>

FillRole ==
    /\ pc = "fill_role"
    /\ IF "Role" \in df.cols
       THEN /\ df' = fillna(df, "Role", T_unknown)
            /\ pc' = "fill_size"
       ELSE /\ pc' = "failed"
            /\ UNCHANGED df
    /\ UNCHANGED <<file, outFile, tieOrder, run, prev, firstScored, applyVars>>

FillSize ==
    /\ pc = "fill_size"
    /\ IF "Company Size" \in df.cols
       THEN /\ df' = fillna(df, "Company Size", T_1_10)
            /\ pc' = "fill_country"
       ELSE /\ pc' = "failed"
            /\ UNCHANGED df
    /\ UNCHANGED <<file, outFile, tieOrder, run, prev, firstScored, applyVars>>

FillCountry ==
    /\ pc = "fill_country"
    /\ IF "Country" \in df.cols
       THEN /\ df' = fillna(df, "Country", T_unknown)
            /\ pc' = "apply_role"
       ELSE /\ pc' = "failed"
            /\ UNCHANGED df
    /\ UNCHANGED <<file, outFile, tieOrder, run, prev, firstScored, applyVars>>

\* df[col].apply(f): f on every value of the column, as a function from
\* the row labels
role_scores(d) == [i \in DOMAIN d.data |-> assign_role_score(d.data[i]["Role"])]

company_size_scores(d) ==
    [i \in DOMAIN d.data |-> assign_company_size_score(d.data[i]["Company Size"])]

country_scores(d) ==
    [i \in DOMAIN d.data |-> assign_country_score(d.data[i]["Country"])]

Raises(scores) == \E i \in DOMAIN scores : scores[i] = Error

ApplyRole ==
    /\ pc = "apply_role"
    /\ IF "Role" \in df.cols /\ ~Raises(role_scores(df))
       THEN /\ df' = setcol(df, "role_score", role_scores(df))
            /\ pc' = "apply_size"
       ELSE /\ pc' = "failed"
            /\ UNCHANGED df
    /\ UNCHANGED <<file, outFile, tieOrder, run, prev, firstScored, applyVars>>

ApplySize ==
    /\ pc = "apply_size"
    /\ IF /\ "Company Size" \in df.cols
          /\ ~Raises(company_size_scores(df))
       THEN /\ df' = setcol(df, "company_size_score",
                            company_size_scores(df))
            /\ pc' = "apply_country"
       ELSE /\ pc' = "failed"
            /\ UNCHANGED df
    /\ UNCHANGED <<file, outFile, tieOrder, run, prev, firstScored, applyVars>>

ApplyCountry ==
    /\ pc = "apply_country"
    /\ IF "Country" \in df.cols /\ ~Raises(country_scores(df))
       THEN /\ df' = setcol(df, "country_score",
                            country_scores(df))
            /\ pc' = "final"
       ELSE /\ pc' = "failed"
            /\ UNCHANGED df
    /\ UNCHANGED <<file, outFile, tieOrder, run, prev, firstScored, applyVars>>

FinalScore ==
    /\ pc = "final"
    /\ df' = setcol(df, "final_score",
                    [i \in DOMAIN df.data |-> final_score(df.data[i])])
    /\ pc' = "sort"
    /\ UNCHANGED <<file, outFile, tieOrder, run, prev, firstScored, applyVars>>

SortValues ==
    /\ pc = "sort"
    /\ df' = sort_values(df, tieOrder)
    /\ pc' = "drop"
    /\ UNCHANGED <<file, outFile, tieOrder, run, prev, firstScored, applyVars>>

DropScores ==
    /\ pc = "drop"
    /\ IF score_columns \subseteq df.cols
       THEN /\ df' = drop(df, score_columns)
            /\ pc' = "write"
       ELSE /\ pc' = "failed"
            /\ UNCHANGED df
    /\ UNCHANGED <<file, outFile, tieOrder, run, prev, firstScored, applyVars>>

ToCsv ==
    /\ pc = "write"
    /\ outFile' = to_csv(df)
    /\ pc' = "done"
    /\ UNCHANGED <<file, df, tieOrder, run, prev, firstScored, applyVars>>

InitFrom(files) ==
    /\ pc = "start"
    /\ file \in files
    /\ tieOrder \in Permutations(1..Len(file.rows))
    /\ df = NoFrame
    /\ outFile = NoOutput
    /\ run = 1
    /\ prev = NoPrev
    /\ firstScored = NoRow
    /\ ApplyIdle

Init == InitFrom(InputFiles(MaxRows, RoleCells, SizeCells, CountryCells))

Next ==
    \/ ReadCsv
    \/ FillRole
    \/ FillSize
    \/ FillCountry
    \/ ApplyRole
    \/ ApplySize
    \/ ApplyCountry
    \/ FinalScore
    \/ SortValues
    \/ DropScores
    \/ ToCsv

Spec == Init /\ [][Next]_vars

----------------------------------------------------------------------------
(* Properties of a run (Spec) *)

\* the documented normalization of a row: a missing Role is "unknown", a
\* missing Company Size "1-10", a missing Country "unknown"
RefNormalized(r) ==
    [c \in DOMAIN r |->
        IF c = "Role" /\ r[c] = NaN THEN T_unknown
        ELSE IF c = "Company Size" /\ r[c] = NaN THEN T_1_10
        ELSE IF c = "Country" /\ r[c] = NaN THEN T_unknown
        ELSE r[c]]

\* tenths of 0.5*roleScore + 0.3*companySizeScore + 0.2*countryScore
RefFinal(r) ==
      5 * RefRoleScore(RefNormalized(r)["Role"])
    + 3 * RefSizeScore(RefNormalized(r)["Company Size"])
    + 2 * RefCountryScore(RefNormalized(r)["Country"])

\* position in data.csv of the row that output row r comes from
InputPos(r) == CHOOSE i \in 1..Len(file.rows) : file.rows[i]["Name"] = r["Name"]

WellFormed == file.exists /\ Required \subseteq file.cols

\* C1: the final score of every row is the weighted sum 0.5/0.3/0.2 of its
\* three scores on the normalized fields, and the rows of the output are in
\* descending order of final score.
C1_SortedDescending ==
    /\ pc \in {"sort", "drop"} =>
          \A i \in DOMAIN df.data : df.data[i]["final_score"] = RefFinal(file.rows[i])
    /\ pc = "done" =>
          \A k \in 1..(Len(outFile.rows) - 1) :
              RefFinal(outFile.rows[k]) >= RefFinal(outFile.rows[k + 1])

C1_Witness ==
    /\ pc = "done"
    /\ Len(outFile.rows) = Len(file.rows)
    /\ Len(file.rows) >= 2
    /\ RefFinal(file.rows[1]) < RefFinal(file.rows[2])
    /\ RefFinal(outFile.rows[1]) > RefFinal(outFile.rows[Len(outFile.rows)])

\* C2: two rows of equal final score are in the output in the order they
\* have in the input.
C2_Stable ==
    pc = "done" =>
        \A a, b \in 1..Len(outFile.rows) :
            (a < b /\ RefFinal(outFile.rows[a]) = RefFinal(outFile.rows[b]))
                => InputPos(outFile.rows[a]) < InputPos(outFile.rows[b])

\* C3: a run on a well-formed file does not fail, and its output has the
\* columns of the input, no score column, as many rows as the input and
\* the rows of the input with every cell as in the input.
C3_RoundTrip ==
    /\ WellFormed => pc # "failed"
    /\ pc = "done" =>
        /\ outFile.cols = file.cols
        /\ Len(outFile.rows) = Len(file.rows)
        /\ {outFile.rows[k] : k \in 1..Len(outFile.rows)}
              = {file.rows[i] : i \in 1..Len(file.rows)}

\* C4: a run that fails because data.csv is absent or a required column is
\* absent writes no output; the output is written only by a run that has
\* read, filled, scored and sorted.
C4_NoOutputOnFailure ==
    /\ ~WellFormed => ~outFile.written
    /\ pc = "failed" => ~outFile.written
    /\ outFile.written => pc = "done"

C4_Witness ==
    /\ pc = "failed"
    /\ file.exists
    /\ Len(file.rows) >= 1
    /\ "Country" \notin file.cols
    /\ df.cols # {}
    /\ ~outFile.written

\* C7: the missing cells are filled before any scorer is applied, so no
\* scorer is called with a missing value; a missing Role is scored as
\* "unknown" (20), a missing Company Size as "1-10" (20), a missing Country
\* as "unknown" (60), and a row with all three missing has final score 28.
C7_NormalizedBeforeScoring ==
    /\ pc \in {"apply_role", "apply_size", "apply_country"} =>
          \A i \in DOMAIN df.data : \A c \in Required : df.data[i][c] # NaN
    /\ pc \in {"final", "sort", "drop"} =>
          \A i \in DOMAIN df.data :
              /\ file.rows[i]["Role"] = NaN =>
                    df.data[i]["Role"] = T_unknown /\ df.data[i]["role_score"] = 20
              /\ file.rows[i]["Company Size"] = NaN =>
                    /\ df.data[i]["Company Size"] = T_1_10
                    /\ df.data[i]["company_size_score"] = 20
              /\ file.rows[i]["Country"] = NaN =>
                    df.data[i]["Country"] = T_unknown /\ df.data[i]["country_score"] = 60
    /\ pc \in {"sort", "drop"} =>
          \A i \in DOMAIN df.data :
              (\A c \in Required : file.rows[i][c] = NaN)
                  => df.data[i]["final_score"] = 280
    /\ WellFormed => pc # "failed"

C7_Witness ==
    /\ pc = "sort"
    /\ \E i \in DOMAIN df.data :
          /\ \A c \in Required : file.rows[i][c] = NaN
          /\ df.data[i]["final_score"] = 280

\* the rows of data.csv are in strictly descending order of final score
StrictlyDescending ==
    \A k \in 1..(Len(file.rows) - 1) :
        RefFinal(file.rows[k]) > RefFinal(file.rows[k + 1])

\* C9: a run on a file whose rows are already in descending order of final
\* score, all final scores distinct, writes the rows of the file unchanged.
C9_Idempotent ==
    (pc = "done" /\ StrictlyDescending) => outFile.rows = file.rows

----------------------------------------------------------------------------
(* A run on one row drawn from every value of the tables (SpecOne) *)

AllRoleCells ==
    DOMAIN ROLE_SCORES
    \cup {NaN, T_wizard, <<"C", "E", "O">>, <<"I", "n", "t", "e", "r", "n">>}

AllSizeCells == DOMAIN COMPANY_SIZE_SCORES \cup {NaN, T_not_a_bucket}

AllCountryCells == Countries \cup {NaN, T_mongolia, T_USA}

InitOne == InitFrom(InputFiles(1, AllRoleCells, AllSizeCells, AllCountryCells))

SpecOne == InitOne /\ [][Next]_vars

IsTopRow(r) ==
    /\ EqualsIgnoreCase(r["Role"], <<"c", "e", "o">>)
    /\ r["Company Size"] = T_10000
    /\ \E k \in COUNTRY_TIERS.tier_1 : EqualsIgnoreCase(r["Country"], k)

IsBottomRow(r) ==
    /\ EqualsIgnoreCase(r["Role"], <<"i", "n", "t", "e", "r", "n">>)
    /\ RefSizeScore(RefNormalized(r)["Company Size"]) = 20
    /\ RefCountryScore(RefNormalized(r)["Country"]) = 60

\* C10: the final score of every row is between 23 and 100; an intern with
\* size score 20 and a country outside both tiers has 23, and only ceo with
\* 10000+ and a tier_1 country has 100.
C10_FinalScoreRange ==
    pc \in {"sort", "drop"} =>
        \A i \in DOMAIN df.data :
            /\ df.data[i]["final_score"] >= 230
            /\ df.data[i]["final_score"] <= 1000
            /\ IsBottomRow(file.rows[i]) => df.data[i]["final_score"] = 230
            /\ IsTopRow(file.rows[i]) => df.data[i]["final_score"] = 1000
            /\ df.data[i]["final_score"] = 1000 => IsTopRow(file.rows[i])

C10_Witness ==
    /\ pc = "sort"
    /\ Len(file.rows) = 1
    /\ file.rows[1]["Role"] = <<"I", "n", "t", "e", "r", "n">>
    /\ file.rows[1]["Company Size"] = T_not_a_bucket
    /\ file.rows[1]["Country"] = NaN
    /\ df.data[1]["final_score"] = 230

----------------------------------------------------------------------------
(* The script run again on the same data.csv, the rows scored in any order *)
(* (SpecPar)                                                               *)

ParRoleCells == {NaN, T_Manager, T_developer}
ParSizeCells == {T_51_200, T_10000}
ParCountryCells == {T_USA}

\* the three scores of row r
scores(r) ==
    [role_score |-> assign_role_score(r["Role"]),
     company_size_score |-> assign_company_size_score(r["Company Size"]),
     country_score |-> assign_country_score(r["Country"])]

IsScored(r) == "role_score" \in DOMAIN r

\* a scorer that adds to the role score the number of rows scored before,
\* kept in a counter shared by the rows
ScoreRowSharedCounter(i) ==
    /\ pc = "apply_role"
    /\ i \in DOMAIN df.data
    /\ ~IsScored(df.data[i])
    /\ IF \E c \in DOMAIN scores(df.data[i]) : scores(df.data[i])[c] = Error
       THEN /\ pc' = "failed"
            /\ UNCHANGED <<df, firstScored>>
       ELSE /\ df' = [df EXCEPT !.data[i] =
                        [scores(@) EXCEPT !.role_score =
                            @ + Cardinality({j \in DOMAIN df.data : IsScored(df.data[j])})]
                        @@ @]
            /\ firstScored' = IF firstScored = NoRow THEN i ELSE firstScored
            /\ pc' = pc
    /\ UNCHANGED <<file, outFile, tieOrder, run, prev, applyVars>>

\* the scorers applied to row i, whichever rows were scored before
ScoreRow(i) ==
    /\ pc = "apply_role"
    /\ i \in DOMAIN df.data
    /\ ~IsScored(df.data[i])
    /\ IF \E c \in DOMAIN scores(df.data[i]) : scores(df.data[i])[c] = Error
       THEN /\ pc' = "failed"
            /\ UNCHANGED <<df, firstScored>>
       ELSE /\ df' = [df EXCEPT !.data[i] = scores(@) @@ @]
            /\ firstScored' = IF firstScored = NoRow THEN i ELSE firstScored
            /\ pc' = pc
    /\ UNCHANGED <<file, outFile, tieOrder, run, prev, applyVars>>

\* every row is scored: the frame has the three score columns
JoinScores ==
    /\ pc = "apply_role"
    /\ \A i \in DOMAIN df.data : IsScored(df.data[i])
    /\ df' = [df EXCEPT !.cols = @ \cup {"role_score", "company_size_score",
                                          "country_score"}]
    /\ pc' = "final"
    /\ UNCHANGED <<file, outFile, tieOrder, run, prev, firstScored, applyVars>>

\* python challenge.py once more, data.csv as it was
Rerun ==
    /\ pc \in {"done", "failed"}
    /\ run < MaxRuns
    /\ run' = run + 1
    /\ prev' = [out |-> outFile, first |-> firstScored]
    /\ pc' = "start"
    /\ df' = NoFrame
    /\ firstScored' = NoRow
    /\ UNCHANGED <<file, outFile, tieOrder, applyVars>>

InitPar == InitFrom(InputFiles(MaxParRows, ParRoleCells, ParSizeCells, ParCountryCells))

NextPar ==
    \/ ReadCsv
    \/ FillRole
    \/ FillSize
    \/ FillCountry
    \/ \E i \in 1..Len(file.rows) : ScoreRow(i)
    \/ JoinScores
    \/ FinalScore
    \/ SortValues
    \/ DropScores
    \/ ToCsv
    \/ Rerun

SpecPar == InitPar /\ [][NextPar]_vars

\* C8: a later run on the same data.csv writes the output the run before
\* wrote, whatever the order in which either run scored the rows.
C8_Deterministic ==
    /\ (pc = "done" /\ run >= 2) => (prev.out.written /\ outFile = prev.out)
    /\ (pc = "failed" /\ run >= 2) => ~outFile.written

C8_Witness ==
    /\ pc = "done"
    /\ run = 2
    /\ Len(outFile.rows) = 2
    /\ firstScored # prev.first
    /\ RefFinal(outFile.rows[1]) = RefFinal(outFile.rows[2])
    /\ outFile = prev.out

====
